---- MODULE Spec2Model ----
(***************************************************************************)
(* Model of the speech services of short-video-maker:                      *)
(*   - the WAV container header built with struct.pack in                  *)
(*     piper_server.py (and test_piper_local.py),                          *)
(*   - the Piper TTS request handler (piper_server.py and the legacy-only  *)
(*     piper_server_simple.py),                                            *)
(*   - the Faster-Whisper request handler (faster_whisper_server.py).      *)
(*                                                                         *)
(* Unbounded Python integers are modelled as little-endian base-256 digit  *)
(* sequences without trailing zeros (the empty sequence is 0), so that the *)
(* 16- and 32-bit fields of struct.pack keep their real width.             *)
(***************************************************************************)
EXTENDS Integers, Sequences, FiniteSets, TLC

VARIABLES
    \* ---- WAV encoder applied to drawn inputs
    enc_L, enc_R, enc_C, enc_out, enc_done,
    \* ---- Piper TTS server process
    p_program,     \* "enhanced" (piper_server.py) or "simple" (piper_server_simple.py)
    p_pc,          \* position of the request being handled; "idle" between requests
    p_req,         \* the request being handled
    voice,         \* self.voice of the handler instance
    p_ret,         \* what generate_audio returned
    p_response,    \* the response written for the request
    p_writer,      \* the wave.Wave_write opened on the temporary file
    p_exc,         \* exception travelling through the finally clauses of the legacy path
    p_tmp,         \* whether the temporary file of this request exists
    p_a_result,    \* what the modern synthesize call gave (history)
    p_b_first,     \* how the legacy call with parameters ended (history)
    p_trace,       \* calls made while handling this request (history)
    p_loads,       \* PiperVoice.load calls completed for this request (history)
    p_cached0,     \* voice loaded last in this process before this request (history)
    p_cached,      \* voice loaded last in this process (history)
    p_prev_strategy, \* how the generate_audio call before this request ended (history)
    \* ---- Faster-Whisper server process
    w_pc,          \* position of the request being handled; "idle" between requests
    w_req,         \* the request being handled
    model,         \* self.model of the handler instance
    model_name,    \* self.model_name of the handler instance
    w_ret,         \* what transcribe_audio returned
    w_response,    \* the response written for the request
    w_lazy,        \* the lazy segment sequence model.transcribe returned
    w_trace,       \* calls made while handling this request (history)
    w_loads,       \* WhisperModel constructions completed for this request (history)
    w_prev,        \* the POST /transcribe request before this one (history)
    w_cached0,     \* model loaded last in this process before this request (history)
    w_cached       \* model loaded last in this process (history)

encVars == <<enc_L, enc_R, enc_C, enc_out, enc_done>>
ttsVars == <<p_program, p_pc, p_req, voice, p_ret, p_response, p_writer, p_exc,
             p_tmp, p_a_result, p_b_first, p_trace, p_loads, p_cached0, p_cached,
             p_prev_strategy>>
asrVars == <<w_pc, w_req, model, model_name, w_ret, w_response, w_lazy, w_trace,
             w_loads, w_prev, w_cached0, w_cached>>
vars == <<encVars, ttsVars, asrVars>>
nonWav == <<ttsVars, asrVars>>
nonTTS == <<encVars, asrVars>>
nonASR == <<encVars, ttsVars>>

(***************************************************************************)
(* Python integers                                                         *)
(***************************************************************************)
RECURSIVE Nat2Big(_)
Nat2Big(n) == IF n = 0 THEN <<>> ELSE <<n % 256>> \o Nat2Big(n \div 256)

RECURSIVE Norm(_)
Norm(d) ==
    IF d = <<>> THEN <<>>
    ELSE IF d[Len(d)] = 0 THEN Norm(SubSeq(d, 1, Len(d) - 1))
    ELSE d

RECURSIVE AddC(_, _, _)
AddC(a, b, c) ==
    IF a = <<>> /\ b = <<>> THEN (IF c = 0 THEN <<>> ELSE <<c>>)
    ELSE LET x == IF a = <<>> THEN 0 ELSE Head(a)
             y == IF b = <<>> THEN 0 ELSE Head(b)
             s == x + y + c
         IN  <<s % 256>> \o AddC(IF a = <<>> THEN <<>> ELSE Tail(a),
                                 IF b = <<>> THEN <<>> ELSE Tail(b),
                                 s \div 256)

BigAdd(a, b) == Norm(AddC(a, b, 0))

RECURSIVE MulDigit(_, _, _)
MulDigit(a, k, c) ==
    IF a = <<>> THEN Nat2Big(c)
    ELSE LET s == Head(a) * k + c
         IN  <<s % 256>> \o MulDigit(Tail(a), k, s \div 256)

RECURSIVE BigMul(_, _)
BigMul(a, b) ==
    IF b = <<>> THEN <<>>
    ELSE BigAdd(Norm(MulDigit(a, Head(b), 0)), Norm(<<0>> \o BigMul(a, Tail(b))))

\* a <= b on normalised digit sequences
RECURSIVE BigLeq(_, _)
BigLeq(a, b) ==
    IF Len(a) # Len(b) THEN Len(a) < Len(b)
    ELSE IF a = <<>> THEN TRUE
    ELSE IF a[Len(a)] # b[Len(b)] THEN a[Len(a)] < b[Len(b)]
    ELSE BigLeq(SubSeq(a, 1, Len(a) - 1), SubSeq(b, 1, Len(b) - 1))

(***************************************************************************)
(* struct.pack('<4sI4s4sIHHIIHH4sI', ...)                                  *)
(***************************************************************************)
\* ASCII tags of the container
TagRIFF == <<82, 73, 70, 70>>
TagWAVE == <<87, 65, 86, 69>>
TagFmt  == <<102, 109, 116, 32>>
TagData == <<100, 97, 116, 97>>

\* width in bytes of one format code of the '<' (standard size) format
FieldWidth(code) == IF code = "H" THEN 2 ELSE 4

RECURSIVE PadTo(_, _)
PadTo(d, w) == IF Len(d) >= w THEN d ELSE PadTo(d \o <<0>>, w)

\* one field: "4s" takes 4 bytes as they are; "I"/"H" take an unsigned
\* integer, which must fit the field (struct.error otherwise)
FieldFits(f) == f.code = "4s" \/ Len(Norm(f.val)) <= FieldWidth(f.code)
FieldBytes(f) == IF f.code = "4s" THEN f.val ELSE PadTo(Norm(f.val), FieldWidth(f.code))

RECURSIVE ConcatFields(_)
ConcatFields(fs) == IF fs = <<>> THEN <<>> ELSE FieldBytes(Head(fs)) \o ConcatFields(Tail(fs))

\* mutant: a value too wide for its field is cut to the field's width
struct_pack_wrapping(fs) ==
    [ok |-> TRUE,
     bytes |-> ConcatFields([i \in 1..Len(fs) |->
                 IF fs[i].code = "4s" THEN fs[i]
                 ELSE [fs[i] EXCEPT !.val = SubSeq(PadTo(fs[i].val, FieldWidth(fs[i].code)),
                                                   1, FieldWidth(fs[i].code))]])]

\* [ok |-> FALSE] stands for struct.error being raised
struct_pack(fs) ==
    IF \A i \in 1..Len(fs) : FieldFits(fs[i])
    THEN [ok |-> TRUE, bytes |-> ConcatFields(fs)]
    ELSE [ok |-> FALSE, bytes |-> <<>>]

S4(tag) == [code |-> "4s", val |-> tag]
U32(v)  == [code |-> "I", val |-> v]
U16(v)  == [code |-> "H", val |-> v]

\* mutant: the byte rate leaves out the channel count
wav_header_mono_byte_rate(data_length, channels, sample_rate) ==
    struct_pack(<<
        S4(TagRIFF), U32(BigAdd(<<36>>, data_length)), S4(TagWAVE), S4(TagFmt),
        U32(<<16>>), U16(<<1>>), U16(channels), U32(sample_rate),
        U32(BigMul(sample_rate, <<2>>)),
        U16(BigMul(<<2>>, channels)), U16(<<16>>),
        S4(TagData), U32(data_length) >>)

\* mutant: the data chunk is given the RIFF chunk's size
wav_header_riff_size_twice(data_length, channels, sample_rate) ==
    struct_pack(<<
        S4(TagRIFF), U32(BigAdd(<<36>>, data_length)), S4(TagWAVE), S4(TagFmt),
        U32(<<16>>), U16(<<1>>), U16(channels), U32(sample_rate),
        U32(BigMul(BigMul(sample_rate, channels), <<2>>)),
        U16(BigMul(<<2>>, channels)), U16(<<16>>),
        S4(TagData), U32(BigAdd(<<36>>, data_length)) >>)

\* piper_server.py:128-132
wav_header(data_length, channels, sample_rate) ==
    struct_pack(<<
        S4(TagRIFF), U32(BigAdd(<<36>>, data_length)), S4(TagWAVE), S4(TagFmt),
        U32(<<16>>), U16(<<1>>), U16(channels), U32(sample_rate),
        U32(BigMul(BigMul(sample_rate, channels), <<2>>)),
        U16(BigMul(<<2>>, channels)), U16(<<16>>),
        S4(TagData), U32(data_length) >>)

(***************************************************************************)
(* The encoder applied to drawn inputs                                     *)
(***************************************************************************)
MaxSmall == 3

\* payload lengths: small ones, and the edge of the 32-bit RIFF size field
LValues == {Nat2Big(n) : n \in 1..MaxSmall}
           \cup { <<219, 255, 255, 255>>, <<220, 255, 255, 255>>, <<0, 0, 0, 0, 1>> }
\* sample rates: usual ones, and the edge of the 32-bit fields
RValues == {Nat2Big(n) : n \in 1..MaxSmall}
           \cup { Nat2Big(22050), Nat2Big(1073741823), Nat2Big(1073741824),
                  <<255, 255, 255, 255>>, <<0, 0, 0, 0, 1>> }
\* channel counts: usual ones, and the edge of the 16-bit fields
CValues == {Nat2Big(n) : n \in 1..MaxSmall}
           \cup { Nat2Big(32767), Nat2Big(32768), Nat2Big(65535), Nat2Big(65536) }

NoOutput == [ok |-> FALSE, bytes |-> <<>>]

InitWav ==
    /\ enc_L \in LValues
    /\ enc_R \in RValues
    /\ enc_C \in CValues
    /\ enc_out = NoOutput
    /\ enc_done = FALSE

\* line 128-133: data_length = len(raw_audio_data); header = struct.pack(...)
Encode ==
    /\ ~enc_done
    /\ enc_out' = wav_header(enc_L, enc_C, enc_R)
    /\ enc_done' = TRUE
    /\ UNCHANGED <<nonWav, enc_L, enc_R, enc_C>>

NextWav == Encode

(***************************************************************************)
(* Piper TTS server: requests and values                                   *)
(***************************************************************************)
MaxChunks == 3

Absent == "<absent>"
\* data.get(key, default)
dict_get(v, default) == IF v = Absent THEN default ELSE v

DefaultVoice == "tr_TR-dfki-medium"
\* voices whose ./models/<voice>.onnx exists
OnDisk == {"tr_TR-dfki-medium", "en_US-lessac-medium"}
VoiceIds == OnDisk \cup {"no-such-voice"}

None == [tag |-> "None", id |-> ""]
\* no handler instance exists (between two requests)
Unbound == [tag |-> "unbound", id |-> ""]
PiperVoice(id) == [tag |-> "PiperVoice", id |-> id]

Exceptions == {"TypeError", "AttributeError", "RuntimeError"}

TTSRoutes == {"POST /tts", "POST /other", "GET /health", "GET /other"}
\* the bytes of the request body, by what parsing them gives
BodyKinds == {"no_content_length", "invalid_utf8", "invalid_json", "non_object", "object"}
TTSRequests ==
    {[route |-> r, body |-> "object", text |-> Absent, voice |-> Absent] :
        r \in TTSRoutes \ {"POST /tts"}}
    \cup {[route |-> "POST /tts", body |-> b, text |-> Absent, voice |-> Absent] :
        b \in BodyKinds \ {"object"}}
    \cup {[route |-> "POST /tts", body |-> "object", text |-> t, voice |-> v] :
        t \in {Absent, "", "Merhaba"}, v \in VoiceIds \cup {Absent}}
NoRequest == [route |-> "", body |-> "", text |-> Absent, voice |-> Absent]
\* well-formed POST /tts requests with a text: each one calls generate_audio
CallRequests ==
    {req \in TTSRequests : req.route = "POST /tts" /\ req.body = "object"
                            /\ req.text \notin {Absent, ""}
                            /\ req.voice \in {Absent, "no-such-voice"}}

NoResponse == [status |-> 0, ctype |-> "", body |-> <<>>]
Response(status, ctype, body) == [status |-> status, ctype |-> ctype, body |-> body]
\* send_error(code, message)
send_error(code) == Response(code, "text/html", <<>>)

NoRet == [kind |-> "pending", bytes |-> <<>>, exc |-> ""]
RetNone == [kind |-> "None", bytes |-> <<>>, exc |-> ""]
RetBytes(b) == [kind |-> "bytes", bytes |-> b, exc |-> ""]
RetRaise(e) == [kind |-> "raise", bytes |-> <<>>, exc |-> e]

\* an AudioChunk-like object yielded by the modern synthesize
ChunkKinds == {
    [has_pcm |-> TRUE, audio_int16_bytes |-> <<1, 2>>, has_rate |-> TRUE,
     sample_rate |-> 22050, has_channels |-> TRUE, sample_channels |-> 1],
    [has_pcm |-> TRUE, audio_int16_bytes |-> <<3, 4, 5, 6>>, has_rate |-> TRUE,
     sample_rate |-> 16000, has_channels |-> TRUE, sample_channels |-> 2],
    [has_pcm |-> TRUE, audio_int16_bytes |-> <<>>, has_rate |-> TRUE,
     sample_rate |-> 22050, has_channels |-> TRUE, sample_channels |-> 1],
    [has_pcm |-> FALSE, audio_int16_bytes |-> <<>>, has_rate |-> TRUE,
     sample_rate |-> 22050, has_channels |-> TRUE, sample_channels |-> 1],
    [has_pcm |-> TRUE, audio_int16_bytes |-> <<7, 8>>, has_rate |-> FALSE,
     sample_rate |-> 0, has_channels |-> FALSE, sample_channels |-> 0],
    [has_pcm |-> TRUE, audio_int16_bytes |-> <<9, 10>>, has_rate |-> TRUE,
     sample_rate |-> 48000, has_channels |-> FALSE, sample_channels |-> 0],
    [has_pcm |-> TRUE, audio_int16_bytes |-> <<11, 12>>, has_rate |-> TRUE,
     sample_rate |-> 22050, has_channels |-> TRUE, sample_channels |-> 40000] }

\* the chunks with audio and the usual attributes, and the chunk without
\* audio_int16_bytes
PlainChunkKinds ==
    {c \in ChunkKinds : c.audio_int16_bytes \in {<<1, 2>>, <<3, 4, 5, 6>>} \/ ~c.has_pcm}

\* up to MaxChunks chunks: the first of any kind (the format is read from
\* it), the later ones of the plain kinds
ChunkSeqs ==
    {<<>>} \cup UNION {{<<c>> \o rest : c \in ChunkKinds, rest \in [1..n -> PlainChunkKinds]} :
                        n \in 0..(MaxChunks - 1)}

\* what self.voice.synthesize(text, speaker_id=..., ...) does: raises, returns
\* None, or returns an iterable that yields `chunks` and then stops or raises
ModernOutcomes ==
    {[kind |-> "raise", exc |-> e, chunks |-> <<>>, iter_exc |-> ""] : e \in Exceptions}
    \cup {[kind |-> "None", exc |-> "", chunks |-> <<>>, iter_exc |-> ""]}
    \cup {[kind |-> "chunks", exc |-> "", chunks |-> cs, iter_exc |-> ie] :
            cs \in ChunkSeqs, ie \in Exceptions \cup {""}}
NoOutcome == [kind |-> "", exc |-> "", chunks |-> <<>>, iter_exc |-> ""]

\* what self.voice.synthesize(text, wav_writer, ...) does: returns without
\* touching the writer, sets the format and writes frames, or raises, before
\* or after it has set the format and written frames
LegacyOutcomes ==
    {[kind |-> "raise", exc |-> e, wrote |-> w, data |-> IF w THEN <<21, 22>> ELSE <<>>] :
        e \in Exceptions, w \in BOOLEAN}
    \cup {[kind |-> "untouched", exc |-> "", wrote |-> FALSE, data |-> <<>>]}
    \cup {[kind |-> "written", exc |-> "", wrote |-> TRUE, data |-> d] :
            d \in {<<>>, <<21, 22>>}}

\* wave.Wave_write on the temporary file
NoWriter == [open |-> FALSE, nchannels |-> 0, framerate |-> 0, sampwidth |-> 0, data |-> <<>>]
wave_open == [open |-> TRUE, nchannels |-> 0, framerate |-> 0, sampwidth |-> 0, data |-> <<>>]
\* the legacy synthesize: setframerate, setsampwidth(2), setnchannels(1), writeframes
wave_written(w, data) ==
    [w EXCEPT !.nchannels = 1, !.framerate = 22050, !.sampwidth = 2, !.data = @ \o data]
\* one legacy call on writer w: the writer and the exception it ends with ("":
\* none). Wave_write refuses a format once frames are written (wave.Error).
legacy_call(w, o) ==
    IF ~o.wrote THEN [writer |-> w, exc |-> o.exc]
    ELSE IF w.data # <<>> THEN [writer |-> w, exc |-> "wave.Error"]
    ELSE [writer |-> wave_written(w, o.data), exc |-> o.exc]
\* Wave_write.close() raises wave.Error when no format was set
wave_close_raises(w) == w.nchannels = 0
\* the file after close(): the header patched to the bytes written, then the frames
wave_file_bytes(w) ==
    struct_pack(<<
        S4(TagRIFF), U32(Nat2Big(36 + Len(w.data))), S4(TagWAVE), S4(TagFmt),
        U32(<<16>>), U16(<<1>>), U16(Nat2Big(w.nchannels)), U32(Nat2Big(w.framerate)),
        U32(Nat2Big(w.nchannels * w.framerate * w.sampwidth)),
        U16(Nat2Big(w.nchannels * w.sampwidth)), U16(Nat2Big(w.sampwidth * 8)),
        S4(TagData), U32(Nat2Big(Len(w.data))) >>).bytes \o w.data

(***************************************************************************)
(* generate_audio: the modern (chunk) API                                  *)
(***************************************************************************)
\* lines 110-113
LoopStart == [raw_audio_data |-> <<>>, sample_rate |-> 22050, channels |-> 1,
              count |-> 0, broke |-> FALSE]

\* lines 114-123; i counts from 1 here, from 0 in the source
RECURSIVE consume_chunks(_, _, _)
consume_chunks(chunks, i, st) ==
    IF i > Len(chunks) THEN st
    ELSE LET chunk == chunks[i]
             st1 == [st EXCEPT !.count = @ + 1]
         IN  IF chunk.has_pcm
             THEN consume_chunks(chunks, i + 1,
                    [st1 EXCEPT
                       !.raw_audio_data = @ \o chunk.audio_int16_bytes,
                       !.sample_rate = IF i = 1 /\ chunk.has_rate
                                       THEN chunk.sample_rate ELSE @,
                       !.channels = IF i = 1 /\ chunk.has_rate
                                    THEN (IF chunk.has_channels
                                          THEN chunk.sample_channels ELSE 1)
                                    ELSE @])
             ELSE [st1 EXCEPT !.broke = TRUE]

\* a handler clause that hands every exception to the legacy path
falls_back_any(exc) == exc # ""

\* line 134: except (TypeError, AttributeError)
falls_back(exc) == exc \in {"TypeError", "AttributeError"}

AReturn(b) == [kind |-> "return", bytes |-> b, exc |-> ""]
ARaise(e) == [kind |-> IF falls_back(e) THEN "fallback" ELSE "error", bytes |-> <<>>, exc |-> e]

\* mutant: the check for no chunks and no audio (lines 124-126) is left out
modern_synthesize_no_empty_check(o) ==
    IF o.kind = "raise" THEN ARaise(o.exc)
    ELSE IF o.kind = "None" THEN ARaise("TypeError")
    ELSE LET st == consume_chunks(o.chunks, 1, LoopStart)
         IN  IF ~st.broke /\ o.iter_exc # "" THEN ARaise(o.iter_exc)
             ELSE LET wav == wav_header(Nat2Big(Len(st.raw_audio_data)),
                                        Nat2Big(st.channels), Nat2Big(st.sample_rate))
                  IN  IF wav.ok THEN AReturn(wav.bytes \o st.raw_audio_data)
                      ELSE ARaise("struct.error")

\* lines 97-136: the try block, up to the return or to the exception it ends with
modern_synthesize(o) ==
    IF o.kind = "raise" THEN ARaise(o.exc)
    ELSE IF o.kind = "None" THEN ARaise("TypeError")
    ELSE LET st == consume_chunks(o.chunks, 1, LoopStart)
         IN  IF ~st.broke /\ o.iter_exc # "" THEN ARaise(o.iter_exc)
             ELSE IF st.count = 0 \/ st.raw_audio_data = <<>> THEN ARaise("TypeError")
             ELSE LET wav == wav_header(Nat2Big(Len(st.raw_audio_data)),
                                        Nat2Big(st.channels), Nat2Big(st.sample_rate))
                  IN  IF wav.ok THEN AReturn(wav.bytes \o st.raw_audio_data)
                      ELSE ARaise("struct.error")

\* mutant: the outer clause catches only what the inner one does
generate_audio_except_narrow(exc) ==
    IF exc \in {"TypeError", "AttributeError"} THEN RetNone ELSE RetRaise(exc)

\* lines 170-174: except Exception: return None
generate_audio_except(exc) == RetNone

(***************************************************************************)
(* Piper TTS server: one request at a time (HTTPServer is single-threaded),*)
(* a new handler instance for every request                                *)
(***************************************************************************)
\* the history of strategies is not kept in this run
Untracked == "untracked"

\* how the last generate_audio call ended, seen when the next request arrives:
\* "A" or "B" for the strategy that returned the audio, "failed" for None
call_outcome ==
    IF p_prev_strategy = Untracked THEN Untracked
    ELSE IF p_ret = NoRet THEN p_prev_strategy
    ELSE IF p_ret.kind # "bytes" THEN "failed"
    ELSE IF \E i \in DOMAIN p_trace : p_trace[i] = "B_enter" THEN "B"
    ELSE "A"

InitTTS ==
    /\ p_program \in {"enhanced", "simple"}
    /\ p_pc = "idle"
    /\ p_req = NoRequest
    /\ voice = Unbound
    /\ p_ret = NoRet
    /\ p_response = NoResponse
    /\ p_writer = NoWriter
    /\ p_exc = ""
    /\ p_tmp = FALSE
    /\ p_a_result = NoOutcome
    /\ p_b_first = ""
    /\ p_trace = <<>>
    /\ p_loads = 0
    /\ p_cached0 = ""
    /\ p_cached = ""
    /\ p_prev_strategy = Untracked

\* the enhanced server at its start, in a run that keeps the history of
\* strategies
InitCalls ==
    /\ p_program = "enhanced"
    /\ p_pc = "idle"
    /\ p_req = NoRequest
    /\ voice = Unbound
    /\ p_ret = NoRet
    /\ p_response = NoResponse
    /\ p_writer = NoWriter
    /\ p_exc = ""
    /\ p_tmp = FALSE
    /\ p_a_result = NoOutcome
    /\ p_b_first = ""
    /\ p_trace = <<>>
    /\ p_loads = 0
    /\ p_cached0 = ""
    /\ p_cached = ""
    /\ p_prev_strategy = ""

\* the response is written and the handler instance is dropped
P_finish(response) ==
    /\ p_response' = response
    /\ p_pc' = "idle"
    /\ voice' = Unbound

\* HTTPServer.serve_forever (lines 211-219) hands one request at a time to a
\* new handler; __init__ (lines 25-27)
P_init(req) ==
    /\ p_pc = "idle"
    /\ p_req' = req
    /\ voice' = None
    /\ p_pc' = "dispatch"
    /\ p_ret' = NoRet
    /\ p_response' = NoResponse
    /\ p_writer' = NoWriter
    /\ p_exc' = ""
    /\ p_tmp' = FALSE
    /\ p_a_result' = NoOutcome
    /\ p_b_first' = ""
    /\ p_trace' = <<>>
    /\ p_loads' = 0
    /\ p_cached0' = p_cached
    /\ p_prev_strategy' = call_outcome
    /\ UNCHANGED <<nonTTS, p_program, p_cached>>

IsGet(req) == req.route \in {"GET /health", "GET /other"}

\* do_GET (lines 176-184)
P_do_GET ==
    /\ p_pc = "dispatch"
    /\ IsGet(p_req)
    /\ P_finish(IF p_req.route = "GET /health"
                THEN Response(200, "application/json", <<>>)
                ELSE send_error(404))
    /\ UNCHANGED <<nonTTS, p_prev_strategy, p_program, p_req, p_ret, p_writer, p_exc, p_tmp, p_a_result, p_b_first,
                   p_trace, p_loads, p_cached0, p_cached>>

\* lines 37-43 and 50: what reading and parsing the body ends with
parse_body(body) ==
    CASE body = "no_content_length" -> "TypeError"
      [] body = "invalid_utf8" -> "UnicodeDecodeError"
      [] body = "invalid_json" -> "JSONDecodeError"
      [] body = "non_object" -> "AttributeError"
      [] OTHER -> "ok"

\* lines 75-79: except Exception: send_error(500)
handle_tts_except(exc) == send_error(500)

\* lines 36-61: the response handle_tts sends before generate_audio is
\* called, or NoResponse when it goes on to call it
handle_tts_head(req) ==
    LET parsed == parse_body(req.body)
        text == dict_get(req.text, "")
    IN  IF parsed = "JSONDecodeError" THEN send_error(400)
        ELSE IF parsed # "ok" THEN handle_tts_except(parsed)
        ELSE IF text = "" THEN send_error(400)
        ELSE NoResponse

\* do_POST (lines 29-33) and handle_tts up to the call of generate_audio
P_do_POST ==
    /\ p_pc = "dispatch"
    /\ ~IsGet(p_req)
    /\ LET early == IF p_req.route # "POST /tts" THEN send_error(404)
                    ELSE handle_tts_head(p_req)
       IN  IF early # NoResponse
           THEN P_finish(early)
           ELSE /\ p_pc' = "generate_audio"
                /\ UNCHANGED <<voice, p_response>>
    /\ UNCHANGED <<nonTTS, p_prev_strategy, p_program, p_req, p_ret, p_writer, p_exc, p_tmp, p_a_result, p_b_first,
                   p_trace, p_loads, p_cached0, p_cached>>

voice_model == dict_get(p_req.voice, DefaultVoice)

\* line 83: the slot is reloaded when ...
must_load(slot, identifier) == slot = None

\* a server that goes straight to the legacy path once it has succeeded
AfterLoad_sticky ==
    IF p_program = "enhanced" /\ p_prev_strategy # "B" THEN "strategyA" ELSE "strategyB"

\* lines 94-96 (simple: 81-84): what follows the load
AfterLoad == IF p_program = "enhanced" THEN "strategyA" ELSE "strategyB"

\* generate_audio lines 83-92 (simple: 70-79)
P_load_voice(load_ok) ==
    /\ p_pc = "generate_audio"
    /\ IF must_load(voice, voice_model)
       THEN IF voice_model \notin OnDisk
            THEN /\ p_ret' = RetNone
                 /\ p_pc' = "respond"
                 /\ p_trace' = Append(p_trace, "missing")
                 /\ UNCHANGED <<voice, p_loads, p_cached>>
            ELSE IF load_ok
            THEN /\ voice' = PiperVoice(voice_model)
                 /\ p_loads' = p_loads + 1
                 /\ p_cached' = voice_model
                 /\ p_pc' = AfterLoad
                 /\ p_trace' = Append(p_trace, "load")
                 /\ UNCHANGED p_ret
            ELSE /\ p_ret' = generate_audio_except("RuntimeError")
                 /\ p_pc' = "respond"
                 /\ p_trace' = Append(p_trace, "load_failed")
                 /\ UNCHANGED <<voice, p_loads, p_cached>>
       ELSE /\ p_pc' = AfterLoad
            /\ UNCHANGED <<voice, p_ret, p_trace, p_loads, p_cached>>
    /\ UNCHANGED <<nonTTS, p_prev_strategy, p_program, p_req, p_response, p_writer, p_exc, p_tmp,
                   p_a_result, p_b_first, p_cached0>>

\* lines 97-136
P_strategy_A(o) ==
    /\ p_pc = "strategyA"
    /\ p_a_result' = o
    /\ p_trace' = Append(p_trace, "A")
    /\ LET res == modern_synthesize(o)
       IN  CASE res.kind = "return" ->
                  /\ p_ret' = RetBytes(res.bytes)
                  /\ p_pc' = "respond"
             [] res.kind = "fallback" ->
                  /\ p_pc' = "strategyB"
                  /\ UNCHANGED p_ret
             [] OTHER ->
                  /\ p_ret' = generate_audio_except(res.exc)
                  /\ p_pc' = "respond"
    /\ UNCHANGED <<nonTTS, p_prev_strategy, p_program, p_req, voice, p_response, p_writer,
                   p_exc, p_tmp, p_b_first,
                   p_loads, p_cached0, p_cached>>

\* lines 137-142 (simple: 84-91): the temporary file is created, and
\* wave.open gives the writer on it or raises
P_B_open(open_ok) ==
    /\ p_pc = "strategyB"
    /\ p_tmp' = TRUE
    /\ p_trace' = Append(p_trace, "B_enter")
    /\ IF open_ok
       THEN /\ p_writer' = wave_open
            /\ p_pc' = IF p_program = "enhanced" THEN "B_params" ELSE "B_basic"
            /\ UNCHANGED p_exc
       ELSE /\ p_exc' = "OSError"
            /\ p_pc' = "B_close"
            /\ UNCHANGED p_writer
    /\ UNCHANGED <<nonTTS, p_prev_strategy, p_program, p_req, voice, p_ret, p_response, p_a_result,
                   p_b_first, p_loads, p_cached0, p_cached>>

\* mutant: the call is made again after any exception
P_B_params_retry_any(o) ==
    /\ p_pc = "B_params"
    /\ p_trace' = Append(p_trace, "B_params")
    /\ LET r == legacy_call(p_writer, o)
       IN  /\ p_writer' = r.writer
           /\ p_b_first' = IF r.exc = "" THEN "returned" ELSE r.exc
           /\ IF r.exc # ""
              THEN /\ p_pc' = "B_basic"
                   /\ UNCHANGED p_exc
              ELSE /\ p_pc' = "B_close"
                   /\ p_exc' = r.exc
    /\ UNCHANGED <<nonTTS, p_prev_strategy, p_program, p_req, voice, p_ret, p_response, p_tmp, p_a_result,
                   p_loads, p_cached0, p_cached>>

\* lines 145-154: the legacy call with the naturalness parameters
P_B_params(o) ==
    /\ p_pc = "B_params"
    /\ p_trace' = Append(p_trace, "B_params")
    /\ LET r == legacy_call(p_writer, o)
       IN  /\ p_writer' = r.writer
           /\ p_b_first' = IF r.exc = "" THEN "returned" ELSE r.exc
           /\ IF r.exc = "TypeError"
              THEN /\ p_pc' = "B_basic"
                   /\ UNCHANGED p_exc
              ELSE /\ p_pc' = "B_close"
                   /\ p_exc' = r.exc
    /\ UNCHANGED <<nonTTS, p_prev_strategy, p_program, p_req, voice, p_ret, p_response, p_tmp, p_a_result,
                   p_loads, p_cached0, p_cached>>

\* line 157 (simple: 94): the legacy call with the text only
P_B_basic(o) ==
    /\ p_pc = "B_basic"
    /\ p_trace' = Append(p_trace, "B_basic")
    /\ p_pc' = "B_close"
    /\ LET r == legacy_call(p_writer, o)
       IN  /\ p_writer' = r.writer
           /\ p_exc' = r.exc
    /\ UNCHANGED <<nonTTS, p_prev_strategy, p_program, p_req, voice, p_ret, p_response, p_tmp, p_a_result, p_b_first,
                   p_loads, p_cached0, p_cached>>

\* mutant: the file is unlinked only after the bytes were read back
P_B_close_unlink_on_success(read_ok, unlink_ok) ==
    /\ p_pc = "B_close"
    /\ LET exc1 == IF p_writer.open /\ wave_close_raises(p_writer) THEN "wave.Error" ELSE p_exc
           exc == IF exc1 = "" /\ ~read_ok THEN "OSError" ELSE exc1
       IN  /\ p_exc' = exc
           /\ p_ret' = IF exc # "" THEN generate_audio_except(exc)
                       ELSE RetBytes(wave_file_bytes(p_writer))
           /\ p_tmp' = (exc # "" \/ ~unlink_ok)
    /\ p_trace' = p_trace \o <<"B_close">> \o (IF unlink_ok THEN <<>> ELSE <<"unlink_failed">>)
    /\ p_writer' = [p_writer EXCEPT !.open = FALSE]
    /\ p_pc' = "respond"
    /\ UNCHANGED <<nonTTS, p_prev_strategy, p_program, p_req, voice, p_response, p_a_result, p_b_first,
                   p_loads, p_cached0, p_cached>>

\* lines 158-168 (simple: 95-108): the finally clauses and what lies between
\* them. The writer, if wave.open gave one, is closed; with no exception so
\* far the file is read back; os.unlink is called, and an exception of it is
\* dropped (so the file stays). An exception ends in the outer except clause.
P_B_close(read_ok, unlink_ok) ==
    /\ p_pc = "B_close"
    /\ LET exc1 == IF p_writer.open /\ wave_close_raises(p_writer) THEN "wave.Error" ELSE p_exc
           exc == IF exc1 = "" /\ ~read_ok THEN "OSError" ELSE exc1
       IN  /\ p_exc' = exc
           /\ p_ret' = IF exc # "" THEN generate_audio_except(exc)
                       ELSE RetBytes(wave_file_bytes(p_writer))
    /\ p_tmp' = ~unlink_ok
    /\ p_trace' = p_trace \o <<"B_close">> \o (IF unlink_ok THEN <<>> ELSE <<"unlink_failed">>)
    /\ p_writer' = [p_writer EXCEPT !.open = FALSE]
    /\ p_pc' = "respond"
    /\ UNCHANGED <<nonTTS, p_prev_strategy, p_program, p_req, voice, p_response, p_a_result, p_b_first,
                   p_loads, p_cached0, p_cached>>

\* handle_tts lines 65-73, and 75-79 for an exception out of generate_audio
handle_tts_tail(ret) ==
    IF ret.kind = "raise" THEN handle_tts_except(ret.exc)
    ELSE IF ret.kind = "bytes" /\ ret.bytes # <<>>
    THEN Response(200, "audio/wav", ret.bytes)
    ELSE send_error(500)

P_respond ==
    /\ p_pc = "respond"
    /\ P_finish(handle_tts_tail(p_ret))
    /\ UNCHANGED <<nonTTS, p_prev_strategy, p_program, p_req, p_ret, p_writer, p_exc, p_tmp, p_a_result, p_b_first,
                   p_trace, p_loads, p_cached0, p_cached>>

NextTTS ==
    \/ \E req \in TTSRequests : P_init(req)
    \/ P_do_GET
    \/ P_do_POST
    \/ \E load_ok \in BOOLEAN : P_load_voice(load_ok)
    \/ \E o \in ModernOutcomes : P_strategy_A(o)
    \/ \E open_ok \in BOOLEAN : P_B_open(open_ok)
    \/ \E o \in LegacyOutcomes : P_B_params(o)
    \/ \E o \in LegacyOutcomes : P_B_basic(o)
    \/ \E read_ok, unlink_ok \in BOOLEAN : P_B_close(read_ok, unlink_ok)
    \/ P_respond

\* the encoder variables while another specification runs
ParkedWav ==
    /\ enc_L = <<>>
    /\ enc_R = <<>>
    /\ enc_C = <<>>
    /\ enc_out = NoOutput
    /\ enc_done = TRUE

\* the TTS server while another specification runs
ParkedTTS == InitTTS /\ p_program = "enhanced"

(***************************************************************************)
(* Faster-Whisper server: requests and values                              *)
(***************************************************************************)
MaxSegments == 2

DefaultModel == "large-v3"
\* model identifiers WhisperModel can resolve
KnownModels == {"base", "large-v3"}
ModelIds == KnownModels \cup {"no-such-model"}

\* self.model_name = None
NoName == "<None>"
UnboundName == "<unbound>"
WhisperModel(model_size, device, compute_type, num_workers) ==
    [tag |-> "WhisperModel", id |-> model_size, device |-> device,
     compute_type |-> compute_type, num_workers |-> num_workers]

ASRRoutes == {"POST /transcribe", "POST /other", "GET /health", "GET /models", "GET /other"}
\* audio paths: only /audio.wav exists
AudioPaths == {Absent, "", "/nonexistent.wav", "/audio.wav"}
path_exists(p) == p = "/audio.wav"

\* the compute_type, device and num_workers keys of a body: all left out, or
\* one of them given
ProfileKeys == {
    [device |-> Absent, compute_type |-> Absent, num_workers |-> Absent],
    [device |-> "cuda", compute_type |-> Absent, num_workers |-> Absent],
    [device |-> Absent, compute_type |-> "float16", num_workers |-> Absent],
    [device |-> Absent, compute_type |-> Absent, num_workers |-> "4"] }

ASRRequests ==
    {[route |-> r, body |-> "object", audio_path |-> Absent, model |-> Absent,
      device |-> Absent, compute_type |-> Absent, num_workers |-> Absent] :
        r \in ASRRoutes \ {"POST /transcribe"}}
    \cup {[route |-> "POST /transcribe", body |-> b, audio_path |-> Absent, model |-> Absent,
           device |-> Absent, compute_type |-> Absent, num_workers |-> Absent] :
            b \in BodyKinds \ {"object"}}
    \cup {[route |-> "POST /transcribe", body |-> "object", audio_path |-> a, model |-> m,
           device |-> k.device, compute_type |-> k.compute_type,
           num_workers |-> k.num_workers] :
            a \in AudioPaths, m \in ModelIds \cup {Absent}, k \in ProfileKeys}
NoASRRequest == [route |-> "", body |-> "", audio_path |-> Absent, model |-> Absent,
                 device |-> Absent, compute_type |-> Absent, num_workers |-> Absent]

\* lines 54-56: the compute_type, device and num_workers handed to transcribe_audio
compute_profile(req) ==
    [device |-> dict_get(req.device, "cpu"),
     compute_type |-> dict_get(req.compute_type, "int8"),
     num_workers |-> dict_get(req.num_workers, "1")]
NoProfile == [device |-> "", compute_type |-> "", num_workers |-> ""]

\* a word of a segment; the engine may leave out its probability
Word(w, s, e, has_p, p) ==
    [word |-> w, start |-> s, end |-> e, has_probability |-> has_p, probability |-> p]
\* a segment as the engine yields it; times in tenths of a second
Segment(id, s, e, text, has_words, words) ==
    [id |-> id, seek |-> 0, start |-> s, end |-> e, text |-> text,
     temperature |-> "0.0", avg_logprob |-> "-0.2", compression_ratio |-> "1.1",
     no_speech_prob |-> "0.01", has_words |-> has_words, words |-> words]

SegmentKinds == {
    Segment(0, 0, 12, <<" ", "a", " ", "b">>, TRUE,
            <<Word("a", 0, 5, TRUE, "0.83"), Word("b", 6, 12, FALSE, "")>>),
    Segment(1, 12, 34, <<"c", " ">>, TRUE, <<>>),
    Segment(2, 34, 50, <<" ", " ">>, FALSE, <<>>) }

\* the engine yields segments with non-decreasing start
SegmentSeqs ==
    {ss \in UNION {[1..n -> SegmentKinds] : n \in 0..MaxSegments} :
        \A i \in 1..(Len(ss) - 1) : ss[i].start <= ss[i + 1].start}

\* what self.model.transcribe(...) does: raises, or returns info and a lazy
\* sequence that yields `segments` and then stops or raises
TranscribeOutcomes ==
    {[kind |-> "raise", segments |-> <<>>, iter_exc |-> ""]}
    \cup {[kind |-> "lazy", segments |-> ss, iter_exc |-> ie] :
            ss \in SegmentSeqs, ie \in {"", "RuntimeError"}}
NoTranscribe == [kind |-> "", segments |-> <<>>, iter_exc |-> ""]

NoResult == [kind |-> "pending", segments |-> <<>>]
ResultNone == [kind |-> "None", segments |-> <<>>]
\* the dict with language, language_probability, duration and segments
ResultDict(segments) == [kind |-> "dict", segments |-> segments]

(***************************************************************************)
(* transcribe_audio: the transcript assembler                              *)
(***************************************************************************)
RECURSIVE lstrip(_)
lstrip(t) == IF t # <<>> /\ Head(t) = " " THEN lstrip(Tail(t)) ELSE t
RECURSIVE rstrip(_)
rstrip(t) == IF t # <<>> /\ t[Len(t)] = " " THEN rstrip(SubSeq(t, 1, Len(t) - 1)) ELSE t
\* str.strip()
strip(t) == rstrip(lstrip(t))

\* mutant: the engine's probability is dropped
word_data_default_only(word) ==
    [start |-> word.start, end |-> word.end, word |-> word.word, probability |-> "1.0"]

\* lines 145-150
word_data(word) ==
    [start |-> word.start, end |-> word.end, word |-> word.word,
     probability |-> IF word.has_probability THEN word.probability ELSE "1.0"]

\* lines 128-151
segment_data(segment) ==
    [id |-> segment.id, seek |-> segment.seek, start |-> segment.start,
     end |-> segment.end, text |-> strip(segment.text), tokens |-> <<>>,
     temperature |-> segment.temperature, avg_logprob |-> segment.avg_logprob,
     compression_ratio |-> segment.compression_ratio,
     no_speech_prob |-> segment.no_speech_prob,
     words |-> IF segment.has_words /\ segment.words # <<>>
               THEN [i \in 1..Len(segment.words) |-> word_data(segment.words[i])]
               ELSE <<>>]

\* mutant: each segment is put in front of the ones before it
RECURSIVE assemble_prepending(_, _)
assemble_prepending(segments, acc) ==
    IF segments = <<>> THEN acc
    ELSE assemble_prepending(Tail(segments), <<segment_data(Head(segments))>> \o acc)

\* lines 127-153: the loop appends one segment_data per segment, in order
RECURSIVE assemble(_, _)
assemble(segments, acc) ==
    IF segments = <<>> THEN acc
    ELSE assemble(Tail(segments), Append(acc, segment_data(Head(segments))))

\* lines 159-162: except Exception: return None
transcribe_audio_except(exc) == ResultNone

\* line 86: the model is loaded when ...
whisper_must_load(m, name, model_size) == m = None \/ name # model_size

(***************************************************************************)
(* Faster-Whisper server: one request at a time, a new handler instance    *)
(* for every request                                                       *)
(***************************************************************************)
NoPrev == [valid |-> FALSE, model |-> "", loads |-> 0, profile |-> NoProfile, status |-> 0]

InitASR ==
    /\ w_pc = "idle"
    /\ w_req = NoASRRequest
    /\ model = Unbound
    /\ model_name = UnboundName
    /\ w_ret = NoResult
    /\ w_response = NoResponse
    /\ w_lazy = NoTranscribe
    /\ w_trace = <<>>
    /\ w_loads = 0
    /\ w_prev = NoPrev
    /\ w_cached0 = ""
    /\ w_cached = ""

model_size == dict_get(w_req.model, DefaultModel)

IsTranscribe(req) == req.route = "POST /transcribe" /\ req.body = "object"

\* the response is written and the handler instance is dropped
W_finish(response) ==
    /\ w_response' = response
    /\ w_pc' = "idle"
    /\ model' = Unbound
    /\ model_name' = UnboundName

\* a server that hands a request to a handler while another is in flight
W_init_any_time(req) ==
    /\ w_pc \notin {"not_started", "dispatch"}
    /\ w_req' = req
    /\ model' = None
    /\ model_name' = NoName
    /\ w_pc' = "dispatch"
    /\ w_ret' = NoResult
    /\ w_response' = NoResponse
    /\ w_lazy' = NoTranscribe
    /\ w_trace' = <<>>
    /\ w_loads' = 0
    /\ w_prev' = IF IsTranscribe(w_req)
                 THEN [valid |-> TRUE, model |-> model_size, loads |-> w_loads,
                       profile |-> compute_profile(w_req), status |-> w_response.status]
                 ELSE w_prev
    /\ w_cached0' = w_cached
    /\ UNCHANGED <<nonASR, w_cached>>

\* HTTPServer.serve_forever (lines 204-221) hands one request at a time to a
\* new handler; __init__ (lines 24-27)
W_init(req) ==
    /\ w_pc = "idle"
    /\ w_req' = req
    /\ model' = None
    /\ model_name' = NoName
    /\ w_pc' = "dispatch"
    /\ w_ret' = NoResult
    /\ w_response' = NoResponse
    /\ w_lazy' = NoTranscribe
    /\ w_trace' = <<>>
    /\ w_loads' = 0
    /\ w_prev' = IF IsTranscribe(w_req)
                 THEN [valid |-> TRUE, model |-> model_size, loads |-> w_loads,
                       profile |-> compute_profile(w_req), status |-> w_response.status]
                 ELSE w_prev
    /\ w_cached0' = w_cached
    /\ UNCHANGED <<nonASR, w_cached>>

IsAsrGet(req) == req.route \in {"GET /health", "GET /models", "GET /other"}

\* line 172: the model the health answer names
health_model(name) == IF name # NoName /\ name # "" THEN name ELSE "not_loaded"

\* do_GET (lines 164-186)
W_do_GET ==
    /\ w_pc = "dispatch"
    /\ IsAsrGet(w_req)
    /\ W_finish(CASE w_req.route = "GET /health" ->
                       Response(200, "application/json", <<health_model(model_name)>>)
                  [] w_req.route = "GET /models" ->
                       Response(200, "application/json", <<"available_models">>)
                  [] OTHER -> send_error(404))
    /\ UNCHANGED <<nonASR, w_req, w_ret, w_lazy, w_trace, w_loads, w_prev,
                   w_cached0, w_cached>>

\* lines 78-81: except Exception: send_error(500)
handle_transcribe_except(exc) == send_error(500)

\* mutant: the path is not looked up on disk
audio_ok_nonempty(audio_path) == audio_path # ""

\* line 59: the audio file is there
audio_ok(audio_path) == audio_path # "" /\ path_exists(audio_path)

\* lines 36-61: the response handle_transcribe sends before transcribe_audio
\* is called, or NoResponse when it goes on to call it
handle_transcribe_head(req) ==
    LET parsed == parse_body(req.body)
        audio_path == dict_get(req.audio_path, "")
    IN  IF parsed = "JSONDecodeError" THEN send_error(400)
        ELSE IF parsed # "ok" THEN handle_transcribe_except(parsed)
        ELSE IF ~audio_ok(audio_path) THEN send_error(400)
        ELSE NoResponse

\* do_POST (lines 29-33) and handle_transcribe up to the call of transcribe_audio
W_do_POST ==
    /\ w_pc = "dispatch"
    /\ ~IsAsrGet(w_req)
    /\ LET early == IF w_req.route # "POST /transcribe" THEN send_error(404)
                    ELSE handle_transcribe_head(w_req)
       IN  IF early # NoResponse
           THEN W_finish(early)
           ELSE /\ w_pc' = "transcribe_audio"
                /\ UNCHANGED <<model, model_name, w_response>>
    /\ UNCHANGED <<nonASR, w_req, w_ret, w_lazy, w_trace, w_loads, w_prev,
                   w_cached0, w_cached>>

\* mutant: the name is recorded before the model is constructed
W_load_model_name_first(load_ok) ==
    /\ w_pc = "transcribe_audio"
    /\ IF load_ok /\ model_size \in KnownModels
       THEN /\ model' = WhisperModel(model_size, compute_profile(w_req).device,
                                     compute_profile(w_req).compute_type,
                                     compute_profile(w_req).num_workers)
            /\ model_name' = model_size
            /\ w_loads' = w_loads + 1
            /\ w_cached' = model_size
            /\ w_trace' = Append(w_trace, "load")
            /\ w_pc' = "transcribe"
            /\ UNCHANGED w_ret
       ELSE /\ model_name' = model_size
            /\ w_ret' = transcribe_audio_except("RuntimeError")
            /\ w_trace' = Append(w_trace, "load_failed")
            /\ w_pc' = "respond"
            /\ UNCHANGED <<model, w_loads, w_cached>>
    /\ UNCHANGED <<nonASR, w_req, w_response, w_lazy, w_prev, w_cached0>>

\* transcribe_audio lines 86-100; an unknown identifier always fails to load
W_load_model(load_ok) ==
    /\ w_pc = "transcribe_audio"
    /\ IF whisper_must_load(model, model_name, model_size)
       THEN IF load_ok /\ model_size \in KnownModels
            THEN /\ model' = WhisperModel(model_size, compute_profile(w_req).device,
                                          compute_profile(w_req).compute_type,
                                          compute_profile(w_req).num_workers)
                 /\ model_name' = model_size
                 /\ w_loads' = w_loads + 1
                 /\ w_cached' = model_size
                 /\ w_trace' = Append(w_trace, "load")
                 /\ w_pc' = "transcribe"
                 /\ UNCHANGED w_ret
            ELSE /\ w_ret' = transcribe_audio_except("RuntimeError")
                 /\ w_trace' = Append(w_trace, "load_failed")
                 /\ w_pc' = "respond"
                 /\ UNCHANGED <<model, model_name, w_loads, w_cached>>
       ELSE /\ w_pc' = "transcribe"
            /\ UNCHANGED <<model, model_name, w_ret, w_trace, w_loads, w_cached>>
    /\ UNCHANGED <<nonASR, w_req, w_response, w_lazy, w_prev, w_cached0>>

\* lines 104-117: self.model.transcribe(...)
W_transcribe(o) ==
    /\ w_pc = "transcribe"
    /\ w_trace' = Append(w_trace, "transcribe")
    /\ w_lazy' = o
    /\ IF o.kind = "raise"
       THEN /\ w_ret' = transcribe_audio_except("RuntimeError")
            /\ w_pc' = "respond"
       ELSE /\ w_pc' = "assemble"
            /\ UNCHANGED w_ret
    /\ UNCHANGED <<nonASR, w_req, model, model_name, w_response, w_loads, w_prev,
                   w_cached0, w_cached>>

\* an assembler that returns what it has when the sequence raises
W_assemble_partial ==
    /\ w_pc = "assemble"
    /\ w_trace' = Append(w_trace, "assemble")
    /\ w_ret' = ResultDict(assemble(w_lazy.segments, <<>>))
    /\ w_pc' = "respond"
    /\ UNCHANGED <<nonASR, w_req, model, model_name, w_response, w_lazy, w_loads,
                   w_prev, w_cached0, w_cached>>

\* lines 119-157: the lazy sequence is consumed to its end, or to its exception
W_assemble ==
    /\ w_pc = "assemble"
    /\ w_trace' = Append(w_trace, "assemble")
    /\ w_ret' = IF w_lazy.iter_exc # ""
                THEN transcribe_audio_except(w_lazy.iter_exc)
                ELSE ResultDict(assemble(w_lazy.segments, <<>>))
    /\ w_pc' = "respond"
    /\ UNCHANGED <<nonASR, w_req, model, model_name, w_response, w_lazy, w_loads,
                   w_prev, w_cached0, w_cached>>

\* mutant: nothing is sent when transcribe_audio returned None
handle_transcribe_tail_silent(ret) ==
    IF ret.kind = "dict" THEN Response(200, "application/json", ret.segments)
    ELSE NoResponse

\* handle_transcribe lines 67-76: a dict with keys is truthy
handle_transcribe_tail(ret) ==
    IF ret.kind = "dict" THEN Response(200, "application/json", ret.segments)
    ELSE send_error(500)

W_respond ==
    /\ w_pc = "respond"
    /\ W_finish(handle_transcribe_tail(w_ret))
    /\ UNCHANGED <<nonASR, w_req, w_ret, w_lazy, w_trace, w_loads, w_prev,
                   w_cached0, w_cached>>

NextASR ==
    \/ \E req \in ASRRequests : W_init(req)
    \/ W_do_GET
    \/ W_do_POST
    \/ \E load_ok \in BOOLEAN : W_load_model(load_ok)
    \/ \E o \in TranscribeOutcomes : W_transcribe(o)
    \/ W_assemble
    \/ W_respond

\* the TTS server process has not been started
NotStartedTTS ==
    /\ p_program = "enhanced"
    /\ p_pc = "not_started"
    /\ p_req = NoRequest
    /\ voice = Unbound
    /\ p_ret = NoRet
    /\ p_response = NoResponse
    /\ p_writer = NoWriter
    /\ p_exc = ""
    /\ p_tmp = FALSE
    /\ p_a_result = NoOutcome
    /\ p_b_first = ""
    /\ p_trace = <<>>
    /\ p_loads = 0
    /\ p_cached0 = ""
    /\ p_cached = ""
    /\ p_prev_strategy = Untracked

\* the Faster-Whisper server process has not been started
NotStartedASR ==
    /\ w_pc = "not_started"
    /\ w_req = NoASRRequest
    /\ model = Unbound
    /\ model_name = UnboundName
    /\ w_ret = NoResult
    /\ w_response = NoResponse
    /\ w_lazy = NoTranscribe
    /\ w_trace = <<>>
    /\ w_loads = 0
    /\ w_prev = NoPrev
    /\ w_cached0 = ""
    /\ w_cached = ""

InitSpecWav == InitWav /\ ParkedTTS /\ InitASR
InitSpecTTS == InitTTS /\ ParkedWav /\ InitASR
InitSpecASR == InitASR /\ ParkedWav /\ ParkedTTS

SpecWav == InitSpecWav /\ [][NextWav]_vars
SpecTTS == InitSpecTTS /\ [][NextTTS]_vars
SpecASR == InitSpecASR /\ [][NextASR]_vars

\* the two services are separate processes: one of them is started and serves
\* its requests
InitSpecServers ==
    /\ ParkedWav
    /\ \/ InitTTS /\ NotStartedASR
       \/ NotStartedTTS /\ InitASR
NextServers == NextTTS \/ NextASR
SpecServers == InitSpecServers /\ [][NextServers]_vars

\* a sequence of generate_audio calls on the enhanced server
InitSpecCalls == InitCalls /\ ParkedWav /\ InitASR
NextCalls ==
    \/ \E req \in CallRequests : P_init(req)
    \/ P_do_POST
    \/ \E load_ok \in BOOLEAN : P_load_voice(load_ok)
    \/ \E o \in ModernOutcomes : P_strategy_A(o)
    \/ \E open_ok \in BOOLEAN : P_B_open(open_ok)
    \/ \E o \in LegacyOutcomes : P_B_params(o)
    \/ \E o \in LegacyOutcomes : P_B_basic(o)
    \/ \E read_ok, unlink_ok \in BOOLEAN : P_B_close(read_ok, unlink_ok)
    \/ P_respond
SpecCalls == InitSpecCalls /\ [][NextCalls]_vars

(***************************************************************************)
(* Reading a container back                                                *)
(***************************************************************************)
\* a little-endian unsigned field as an integer
unpack_uint(bytes) == Norm(bytes)
Field(bytes, first, last) == unpack_uint(SubSeq(bytes, first + 1, last + 1))

U32Max == <<255, 255, 255, 255>>
U16Max == <<255, 255>>

Count(seq, x) == Cardinality({i \in DOMAIN seq : seq[i] = x})
Has(seq, x) == \E i \in DOMAIN seq : seq[i] = x

(***************************************************************************)
(* Claims on the WAV encoder (SpecWav)                                     *)
(***************************************************************************)
\* every field of the header fits its width
C7_InRange ==
    /\ BigLeq(BigAdd(<<36>>, enc_L), U32Max)
    /\ BigLeq(enc_R, U32Max)
    /\ BigLeq(BigMul(BigMul(enc_R, enc_C), <<2>>), U32Max)
    /\ BigLeq(enc_C, U16Max)
    /\ BigLeq(BigMul(<<2>>, enc_C), U16Max)

C7_SizeFieldsRight ==
    /\ enc_out.ok
    /\ Len(enc_out.bytes) = 44
    /\ Field(enc_out.bytes, 4, 7) = BigAdd(<<36>>, enc_L)
    /\ Field(enc_out.bytes, 40, 43) = enc_L

\* C7 as stated: for every L, R, C > 0 the encoder succeeds and produces a
\* 44-byte header whose bytes 4-7 hold 36+L and whose bytes 40-43 hold L.
C7_Original == enc_done => C7_SizeFieldsRight

\* C7 as amended: for every L, R, C > 0 whose header fields fit their widths
\* (36+L, R and 2*R*C below 2^32, C and 2*C below 2^16) the encoder succeeds
\* with a 44-byte header holding 36+L in bytes 4-7 and L in bytes 40-43; for
\* any other L, R, C packing fails (struct.error) and nothing wraps around.
C7_SizeFields ==
    enc_done => IF C7_InRange THEN C7_SizeFieldsRight ELSE ~enc_out.ok

\* the largest payload length that still fits has been encoded
C7_Witness ==
    /\ enc_done
    /\ enc_L = <<219, 255, 255, 255>>
    /\ C7_InRange
    /\ enc_out.ok

\* C8: parsing the header the encoder produced recovers the sample rate
\* (bytes 24-27), the channel count (bytes 22-23) and the payload length
\* (bytes 40-43); bytes 28-31 hold R*C*2 and bytes 32-33 hold C*2.
C8_RoundTrip ==
    (enc_done /\ enc_out.ok) =>
        /\ Field(enc_out.bytes, 24, 27) = enc_R
        /\ Field(enc_out.bytes, 22, 23) = enc_C
        /\ Field(enc_out.bytes, 40, 43) = enc_L
        /\ Field(enc_out.bytes, 28, 31) = BigMul(BigMul(enc_R, enc_C), <<2>>)
        /\ Field(enc_out.bytes, 32, 33) = BigMul(enc_C, <<2>>)

\* a stereo buffer at 22050 Hz has been encoded
C8_Witness ==
    /\ enc_done
    /\ enc_out.ok
    /\ enc_C = Nat2Big(2)
    /\ enc_R = Nat2Big(22050)

(***************************************************************************)
(* Claims on the TTS server (SpecTTS)                                      *)
(***************************************************************************)
\* generate_audio is past lines 83-92 for the request at hand
P_PastLoad ==
    \/ p_pc \in {"strategyA", "strategyB", "B_params", "B_basic", "B_close", "respond"}
    \/ p_pc = "idle" /\ p_ret # NoRet

P_SynthesisRan == Has(p_trace, "A") \/ Has(p_trace, "B_enter")

\* C2: a generate_audio call whose voice identifier equals the identifier of
\* the session loaded last reuses it and performs no load; a call with another
\* identifier performs a load, and synthesis runs on a session loaded for the
\* requested identifier.
C2_CacheKeyedByIdentifier ==
    P_PastLoad =>
        /\ p_cached0 = voice_model => p_loads = 0
        /\ (p_cached0 # voice_model /\ P_SynthesisRan) =>
              (p_loads = 1 /\ p_cached = voice_model)

P_ChunkLacksPCM ==
    \E i \in DOMAIN p_a_result.chunks : ~p_a_result.chunks[i].has_pcm
P_EmptySequence ==
    /\ p_a_result.kind = "chunks"
    /\ p_a_result.chunks = <<>>
    /\ p_a_result.iter_exc = ""

\* C3: when the chunk sequence of the modern call is empty, or any chunk of
\* it (at any position) lacks audio_int16_bytes, the output of Strategy A is
\* not returned, Strategy A is not retried, and control passes to Strategy B.
C3_StrategyAAbandoned ==
    (p_a_result.kind = "chunks" /\ (P_EmptySequence \/ P_ChunkLacksPCM)) =>
        /\ Count(p_trace, "A") = 1
        /\ p_pc = "strategyB" \/ Has(p_trace, "B_enter")

\* C4: when Strategy A produced an empty chunk sequence, Strategy B is
\* entered exactly once in that request: not yet at the moment of the
\* fallback, once from then on, and so once when the request has failed.
C4_StrategyBOnce ==
    P_EmptySequence =>
        /\ Count(p_trace, "A") = 1
        /\ Count(p_trace, "B_enter") = (IF p_pc = "strategyB" THEN 0 ELSE 1)

\* an empty chunk sequence, Strategy B entered once, the request failed
C4_Witness ==
    /\ P_EmptySequence
    /\ p_pc = "idle"
    /\ p_response.status = 500
    /\ Count(p_trace, "B_enter") = 1

P_TextGiven ==
    /\ p_req.route = "POST /tts"
    /\ p_req.body = "object"
    /\ dict_get(p_req.text, "") # ""

\* the voice artifact is missing, loading raised, the modern call ended
\* with an exception that is not handed to the legacy path, or the legacy
\* path ended with an exception
P_SynthesisFailed ==
    \/ Has(p_trace, "missing")
    \/ Has(p_trace, "load_failed")
    \/ Has(p_trace, "A") /\ ~Has(p_trace, "B_enter") /\ p_ret.kind # "bytes"
    \/ Has(p_trace, "B_close") /\ p_exc # ""

\* C5: for a POST /tts with non-empty text, whenever the voice artifact is
\* missing or synthesis fails with any exception, generate_audio returns None,
\* no exception leaves it or the handler, the answer is 500, and the server is
\* back accepting requests.
C5_FailureIs500 ==
    /\ p_ret.kind # "raise"
    /\ (P_TextGiven /\ P_SynthesisFailed /\ p_pc \in {"respond", "idle"}) =>
          /\ p_ret = RetNone
          /\ p_pc = "idle" => p_response.status = 500

\* both strategies were tried, the legacy one raised, the answer was 500
C5_Witness ==
    /\ P_TextGiven
    /\ p_pc = "idle"
    /\ Has(p_trace, "A")
    /\ Has(p_trace, "B_basic")
    /\ p_exc = "RuntimeError"
    /\ p_response.status = 500

\* C6: every 200 response to POST /tts has a body that starts with RIFF and
\* whose data length field (bytes 40-43) equals len(body) - 44.
C6_Response200IsWav ==
    (p_req.route = "POST /tts" /\ p_response.status = 200) =>
        /\ Len(p_response.body) >= 44
        /\ SubSeq(p_response.body, 1, 4) = TagRIFF
        /\ Field(p_response.body, 40, 43) = Nat2Big(Len(p_response.body) - 44)

\* a 200 response built by Strategy A from two chunks
C6_Witness ==
    /\ p_req.route = "POST /tts"
    /\ p_response.status = 200
    /\ ~Has(p_trace, "B_enter")
    /\ Len(p_a_result.chunks) = 2

P_Malformed ==
    /\ p_req.route = "POST /tts"
    /\ \/ p_req.body \in {"invalid_utf8", "invalid_json"}
       \/ p_req.body = "object" /\ dict_get(p_req.text, "") = ""

\* C10: a POST whose body is not valid JSON, and a POST /tts whose text is
\* missing or empty, is answered 400, and neither a load nor a synthesis call
\* happens for it.
C10_MalformedRejected ==
    P_Malformed =>
        /\ p_loads = 0
        /\ p_trace = <<>>
        /\ p_pc = "idle" => p_response.status = 400

(***************************************************************************)
(* Claims on the Faster-Whisper server (SpecASR)                           *)
(***************************************************************************)
\* transcribe_audio is past lines 86-100 for the request at hand
W_PastLoad ==
    \/ w_pc \in {"transcribe", "assemble", "respond"}
    \/ w_pc = "idle" /\ w_ret # NoResult

\* C1: two consecutive POST /transcribe requests naming the same model
\* identifier trigger at most one WhisperModel construction in total; a
\* request naming another identifier than the one before triggers exactly
\* one new load, which replaces the handle held.
C1_SessionCachedAcrossRequests ==
    (IsTranscribe(w_req) /\ w_prev.valid) =>
        /\ w_prev.model = model_size => w_prev.loads + w_loads <= 1
        /\ (w_prev.model # model_size /\ W_PastLoad /\ ~Has(w_trace, "load_failed")) =>
              (w_loads = 1 /\ w_cached = model_size)

W_BadAudioPath == w_req.audio_path \in {Absent, "", "/nonexistent.wav"}

\* C9: a POST /transcribe whose audio_path is missing, empty or names a file
\* that does not exist is answered 400; no model is loaded, transcribe is not
\* called, and the session slot stays as it was.
C9_BadAudioPathRejected ==
    (IsTranscribe(w_req) /\ W_BadAudioPath) =>
        /\ w_loads = 0
        /\ w_trace = <<>>
        /\ w_cached = w_cached0
        /\ w_pc # "idle" => (model = None /\ model_name = NoName)
        /\ w_pc = "idle" => w_response.status = 400

\* a request naming a file that does not exist has been answered 400
C9_Witness ==
    /\ IsTranscribe(w_req)
    /\ w_req.audio_path = "/nonexistent.wav"
    /\ w_pc = "idle"
    /\ w_response.status = 400

\* C11: a GET /health answers with the identifier of the model loaded last by
\* a successful load of a POST /transcribe, and answers not_loaded only when
\* no model has been loaded in the process.
C11_HealthReportsCached ==
    (w_req.route = "GET /health" /\ w_pc = "idle") =>
        w_response.body = <<IF w_cached = "" THEN "not_loaded" ELSE w_cached>>

(***************************************************************************)
(* Claims on both services (SpecServers)                                   *)
(***************************************************************************)
\* the load failed, model.transcribe raised, or the lazy sequence raised
W_RecognitionFailed ==
    \/ Has(w_trace, "load_failed")
    \/ w_lazy.kind = "raise"
    \/ w_lazy.iter_exc # ""

W_AudioGiven == IsTranscribe(w_req) /\ audio_ok(dict_get(w_req.audio_path, ""))

\* C12: a request on a server-error path (load failure, recognition failure,
\* synthesis failure) ends with a response written, a 500; a well-formed
\* recognition request that follows a request answered 500, and whose own load
\* and engine calls succeed, is answered 200; and a well-formed synthesis
\* request whose own load and engine calls succeed is answered 200 whatever
\* the requests before it were and however they ended.
C12_Recoverable ==
    /\ (P_TextGiven /\ P_SynthesisFailed /\ p_pc = "idle") => p_response.status = 500
    /\ (W_AudioGiven /\ W_RecognitionFailed /\ w_pc = "idle") => w_response.status = 500
    /\ (P_TextGiven /\ p_pc = "idle" /\ ~P_SynthesisFailed) => p_response.status = 200
    /\ (w_prev.valid /\ w_prev.status = 500 /\ W_AudioGiven /\ w_pc = "idle"
          /\ ~W_RecognitionFailed) => w_response.status = 200

\* a request for a model that cannot be loaded was answered 500, and the
\* request after it, for another model, was answered 200
C12_Witness ==
    /\ w_prev.valid
    /\ w_prev.status = 500
    /\ w_prev.model = "no-such-model"
    /\ W_AudioGiven
    /\ model_size = "base"
    /\ w_pc = "idle"
    /\ w_response.status = 200

(***************************************************************************)
(* Claims on the transcript assembler (SpecASR)                            *)
(***************************************************************************)
\* `out` is `text` without its leading and trailing blanks
IsStripped(out, text) ==
    /\ out = <<>> \/ (out[1] # " " /\ out[Len(out)] # " ")
    /\ \E a \in 1..(Len(text) + 1) :
          /\ a + Len(out) - 1 <= Len(text)
          /\ out = SubSeq(text, a, a + Len(out) - 1)
          /\ \A k \in 1..Len(text) : (k < a \/ k > a + Len(out) - 1) => text[k] = " "

W_Assembled == w_ret.kind = "dict"

C14_WordProbability ==
    W_Assembled =>
        \A i \in 1..Len(w_lazy.segments) :
            LET inw == IF w_lazy.segments[i].has_words
                       THEN w_lazy.segments[i].words ELSE <<>>
                outw == w_ret.segments[i].words
            IN  /\ Len(outw) = Len(inw)
                /\ \A j \in 1..Len(inw) :
                      /\ outw[j].word = inw[j].word
                      /\ outw[j].start = inw[j].start
                      /\ outw[j].end = inw[j].end
                      /\ inw[j].has_probability => outw[j].probability = inw[j].probability
                      /\ ~inw[j].has_probability => outw[j].probability = "1.0"

\* a segment with a word of probability 0.83 and a word without probability
\* was assembled
C14_Witness ==
    /\ W_Assembled
    /\ \E i \in 1..Len(w_lazy.segments) :
          /\ Len(w_ret.segments[i].words) = 2
          /\ w_lazy.segments[i].words[1].has_probability
          /\ w_ret.segments[i].words[1].probability = "0.83"
          /\ ~w_lazy.segments[i].words[2].has_probability
          /\ w_ret.segments[i].words[2].probability = "1.0"

(***************************************************************************)
(* Claims on the session slots                                             *)
(***************************************************************************)
\* the model the handler holds is the one the request before this one loaded
W_RunsOnPrevSession ==
    model = WhisperModel(w_prev.model, w_prev.profile.device,
                         w_prev.profile.compute_type, w_prev.profile.num_workers)

\* C15: a POST /transcribe naming the identifier that the request before it
\* loaded, with a device, compute_type or num_workers other than those of
\* that load, performs no load and runs on the session loaded then.
C15_ProfileNotInCacheKey ==
    (/\ IsTranscribe(w_req)
     /\ w_prev.valid
     /\ w_prev.loads = 1
     /\ w_prev.model = model_size
     /\ w_prev.profile # compute_profile(w_req)
     /\ W_PastLoad) =>
        /\ w_loads = 0
        /\ w_pc \in {"transcribe", "assemble", "respond"} => W_RunsOnPrevSession

P_LoadFailed == Has(p_trace, "missing") \/ Has(p_trace, "load_failed")
W_LoadFailed == Has(w_trace, "load_failed")

\* C16: when the voice artifact is absent or loading raises, no load is
\* counted, the session loaded last in the process and the handler's slot are
\* what they were when the request started, and the answer is 500; and in
\* every state a model_name that is set names the identifier the held model
\* was constructed for.
C16_NoPartialInstall ==
    /\ P_LoadFailed =>
          /\ p_loads = 0
          /\ p_cached = p_cached0
          /\ p_pc = "respond" => voice = None
          /\ p_pc = "idle" => p_response.status = 500
    /\ W_LoadFailed =>
          /\ w_loads = 0
          /\ w_cached = w_cached0
          /\ w_pc = "respond" => (model = None /\ model_name = NoName)
          /\ w_pc = "idle" => w_response.status = 500
    /\ model_name \notin {NoName, UnboundName} =>
          (model.tag = "WhisperModel" /\ model.id = model_name)

\* after a request that loaded a model, the construction of another model
\* raised and the request was answered 500
C16_Witness ==
    /\ W_LoadFailed
    /\ w_cached0 = "base"
    /\ model_size = "large-v3"
    /\ w_pc = "idle"
    /\ w_response.status = 500

\* C17: when the request before this one loaded its model and then failed
\* in recognition (500), a request naming the same identifier performs no
\* load.
C17_SessionKeptAfterEngineFailure ==
    (/\ IsTranscribe(w_req)
     /\ w_prev.valid
     /\ w_prev.loads = 1
     /\ w_prev.status = 500
     /\ w_prev.model = model_size
     /\ W_PastLoad) =>
        w_loads = 0

(***************************************************************************)
(* Claims on the legacy path of generate_audio (SpecTTS)                   *)
(***************************************************************************)
IsStrategyBStep(x) == x \in {"B_params", "B_basic", "B_close"}

\* the calls of the session and the closing step of this request, after the
\* temporary file was created
P_StrategyBSteps ==
    LET i == CHOOSE k \in DOMAIN p_trace : p_trace[k] = "B_enter"
    IN  SelectSeq(SubSeq(p_trace, i + 1, Len(p_trace)), IsStrategyBStep)

\* C18: in Strategy B of piper_server.py the session is called first with the
\* text and the naturalness parameters on the writer of the temporary file;
\* it is called again, once, with the text only and the same writer, exactly
\* when the first call raised TypeError (the way a session rejects keyword
\* parameters); no third call is made, whatever the second call ends with.
C18_ParameterRetry ==
    (p_program = "enhanced" /\ Has(p_trace, "B_enter")) =>
        /\ Count(p_trace, "B_enter") = 1
        /\ P_StrategyBSteps \in { <<>>, <<"B_close">>, <<"B_params">>,
                                  <<"B_params", "B_close">>, <<"B_params", "B_basic">>,
                                  <<"B_params", "B_basic", "B_close">> }
        /\ ~Has(p_trace, "B_params") => p_b_first = ""
        /\ Has(p_trace, "B_params") =>
              (p_b_first = "TypeError" <=> (p_pc = "B_basic" \/ Has(p_trace, "B_basic")))
        /\ p_pc = "B_basic" => (p_tmp /\ p_writer.open)

\* the call with parameters raised TypeError, the call with the text only
\* raised too, and the request was answered 500 without a third call
C18_Witness ==
    /\ p_program = "enhanced"
    /\ Has(p_trace, "B_enter")
    /\ P_StrategyBSteps = <<"B_params", "B_basic", "B_close">>
    /\ p_b_first = "TypeError"
    /\ p_exc = "RuntimeError"
    /\ p_pc = "idle"
    /\ p_response.status = 500

(***************************************************************************)
(* Claims on the modern path of generate_audio (SpecTTS)                   *)
(***************************************************************************)
\* generate_audio returned the bytes Strategy A built
P_StrategyASucceeded ==
    /\ Has(p_trace, "A")
    /\ ~Has(p_trace, "B_enter")
    /\ p_ret.kind = "bytes"

\* the PCM bytes of all chunks that have some, in sequence order
RECURSIVE AllPCM(_)
AllPCM(chunks) ==
    IF chunks = <<>> THEN <<>>
    ELSE (IF Head(chunks).has_pcm THEN Head(chunks).audio_int16_bytes ELSE <<>>)
         \o AllPCM(Tail(chunks))

\* C19: when Strategy A succeeds, the payload after the 44-byte header is the
\* concatenation of the PCM bytes of all chunks in sequence order, and the
\* header's sample rate (bytes 24-27) and channel count (bytes 22-23) are
\* those of the first chunk, whatever the later chunks carry.
C19_StrategyAAssembly ==
    P_StrategyASucceeded =>
        /\ SubSeq(p_ret.bytes, 45, Len(p_ret.bytes)) = AllPCM(p_a_result.chunks)
        /\ p_a_result.chunks[1].has_rate =>
              Field(p_ret.bytes, 24, 27) = Nat2Big(p_a_result.chunks[1].sample_rate)
        /\ (p_a_result.chunks[1].has_rate /\ p_a_result.chunks[1].has_channels) =>
              Field(p_ret.bytes, 22, 23) = Nat2Big(p_a_result.chunks[1].sample_channels)

(***************************************************************************)
(* Claims on the temporary file of the legacy path (SpecTTS)               *)
(***************************************************************************)
\* generate_audio has returned for the request at hand
P_Returned == p_pc \in {"respond", "idle"} /\ p_ret # NoRet

P_HandlerStarts == p_pc' = "dispatch" /\ p_pc # "dispatch"
W_HandlerStarts == w_pc' = "dispatch" /\ w_pc # "dispatch"

\* the compare, load and install steps of generate_audio / transcribe_audio
P_LoadStep == p_pc = "generate_audio" /\ p_pc' # "generate_audio"
W_LoadStep == w_pc = "transcribe_audio" /\ w_pc' # "transcribe_audio"

P_CallWithSession ==
    /\ P_PastLoad
    /\ ~Has(p_trace, "missing")
    /\ ~Has(p_trace, "load_failed")

\* the strategies entered during this call, in order
P_StrategiesEntered == SelectSeq(p_trace, LAMBDA e : e \in {"A", "B_enter"})

\* C22: whatever way the generate_audio call before ended (none before,
\* Strategy A returned the audio, Strategy B returned it, or it failed), a
\* generate_audio call of the enhanced server with a loaded session first
\* makes the Strategy A call, once, and enters Strategy B only after it, at
\* most once.
C22_StrategyPerCall ==
    (p_program = "enhanced" /\ P_CallWithSession) =>
        /\ p_prev_strategy \in {"", "A", "B", "failed"}
        /\ IF p_pc = "strategyA"
           THEN P_StrategiesEntered = <<>>
           ELSE P_StrategiesEntered \in {<<"A">>, <<"A", "B_enter">>}

\* the call before was answered by Strategy B; this call made the Strategy A
\* call, which returned the audio
C22_Witness ==
    /\ p_prev_strategy = "B"
    /\ P_CallWithSession
    /\ P_StrategiesEntered = <<"A">>
    /\ p_ret.kind = "bytes"

(***************************************************************************)
(* Claims on the consumption of the segment sequence                       *)
(***************************************************************************)
\* model.transcribe returned a lazy sequence and the assembler is done with it
W_SequenceConsumed ==
    /\ w_lazy.kind = "lazy"
    /\ w_pc \in {"respond", "idle"}

W_Answered == w_pc = "idle" /\ w_response # NoResponse

\* C23: the response of a request whose engine call returned a sequence is
\* written after the assembler ran over the sequence, once; a sequence that
\* ended without raising is in the transcript with all its segments; a
\* sequence that raised, after any number of segments, gives no transcript
\* and the answer 500 with no segment in it; and a sequence that ended
\* without yielding gives the answer 200 with an empty segments list.
C23_AllOrNothing ==
    /\ w_lazy.kind = "lazy" /\ w_response # NoResponse => W_SequenceConsumed
    /\ W_SequenceConsumed =>
        /\ Count(w_trace, "assemble") = 1
        /\ w_trace[Len(w_trace)] = "assemble"
        /\ IF w_lazy.iter_exc # ""
           THEN /\ w_ret.kind = "None"
                /\ w_ret.segments = <<>>
                /\ W_Answered => w_response.status = 500 /\ w_response.body = <<>>
           ELSE /\ w_ret.kind = "dict"
                /\ Len(w_ret.segments) = Len(w_lazy.segments)
                /\ W_Answered =>
                    /\ w_response.status = 200
                    /\ w_response.ctype = "application/json"
                    /\ w_response.body = w_ret.segments
                    /\ w_lazy.segments = <<>> => w_response.body = <<>>

\* the sequence raised after yielding segments and the request was answered
\* 500
C23_Witness ==
    /\ W_SequenceConsumed
    /\ W_Answered
    /\ w_lazy.iter_exc # ""
    /\ Len(w_lazy.segments) = MaxSegments
    /\ w_response.status = 500

(***************************************************************************)
(* Claims on what reaches the legacy path                                  *)
(***************************************************************************)
CapabilityMismatch == {"TypeError", "AttributeError"}

\* the chunks the loop of Strategy A took before it stopped at a chunk
\* without audio_int16_bytes
RECURSIVE P_ChunksTaken(_)
P_ChunksTaken(chunks) ==
    IF chunks = <<>> \/ ~Head(chunks).has_pcm THEN <<>>
    ELSE <<Head(chunks)>> \o P_ChunksTaken(Tail(chunks))

\* the loop ran to the end of the sequence, where the sequence raised exc
P_IterationRaised(exc) ==
    /\ p_a_result.kind = "chunks"
    /\ p_a_result.iter_exc = exc
    /\ P_ChunksTaken(p_a_result.chunks) = p_a_result.chunks

\* the loop ended without an exception: the sequence was exhausted, or the
\* loop stopped at a chunk without audio_int16_bytes
P_IterationEnded ==
    /\ p_a_result.kind = "chunks"
    /\ \/ P_IterationRaised("")
       \/ P_ChunksTaken(p_a_result.chunks) # p_a_result.chunks

\* the modern call, or the iteration over its chunks, raised something that
\* is neither TypeError nor AttributeError
P_StrategyARaisedOther ==
    \/ p_a_result.kind = "raise" /\ p_a_result.exc \notin CapabilityMismatch
    \/ \E e \in Exceptions \ CapabilityMismatch : P_IterationRaised(e)

\* C24: on the enhanced server, when the modern call or the iteration over
\* its chunks raises an error other than TypeError and AttributeError, the
\* legacy path is not entered, no temporary file and no writer are created,
\* generate_audio returns None and the request is answered 500; and the
\* legacy path is entered only when the modern call or the iteration raised
\* TypeError or AttributeError, the call returned None, or the loop ended
\* with no PCM byte collected (which includes the empty chunk sequence).
C24_FallbackOnlyOnMismatch ==
    (p_program = "enhanced" /\ Has(p_trace, "A")) =>
        /\ P_StrategyARaisedOther =>
            /\ ~Has(p_trace, "B_enter")
            /\ ~p_tmp
            /\ p_writer = NoWriter
            /\ p_ret = RetNone
            /\ p_pc = "idle" => p_response.status = 500
        /\ Has(p_trace, "B_enter") =>
            \/ p_a_result.kind = "raise" /\ p_a_result.exc \in CapabilityMismatch
            \/ p_a_result.kind = "None"
            \/ \E e \in CapabilityMismatch : P_IterationRaised(e)
            \/ P_IterationEnded /\ AllPCM(P_ChunksTaken(p_a_result.chunks)) = <<>>

\* the sequence yielded chunks with PCM bytes and then raised RuntimeError;
\* the request was answered 500 without the legacy path
C24_Witness ==
    /\ p_program = "enhanced"
    /\ P_IterationRaised("RuntimeError")
    /\ Len(p_a_result.chunks) >= 2
    /\ AllPCM(p_a_result.chunks) # <<>>
    /\ p_pc = "idle"
    /\ p_response.status = 500
    /\ ~Has(p_trace, "B_enter")

====
